---- MODULE Spec2Model ----
(***************************************************************************)
(* Model of trytond-sale-channel: party.py, product.py (channel listings,  *)
(* availability, inventory export, the add-listing wizard, Product.write). *)
(*                                                                         *)
(* Python's None is Null (the empty tuple); a set value x of a nullable    *)
(* field is the one-element tuple <<x>>.                                   *)
(***************************************************************************)
EXTENDS Integers, Sequences, FiniteSets, TLC

VARIABLES
    stock,              \* product id -> warehouse id -> on-hand quantity
    products,           \* product id -> [is_fresh_import, code] (product.product rows)
    party_listings,     \* rows of party.party.channel_listing
    template_listings,  \* rows of product.template.channel_listing
    product_listings,   \* rows of product.product.channel_listing
    result,             \* what the last call returned or raised
    exported,           \* listing ids a downstream export_inventory pushed, in order
    frame,              \* the running export_bulk_inventory call
    wizard,             \* the product.listing.add wizard session
    setup,              \* what the installed modules registered for the wizard
    txn,                \* the concurrent inserting transactions
    next_id             \* the next row id of each listing table

vars == <<stock, products, party_listings, template_listings, product_listings,
          result, exported, frame, wizard, setup, txn, next_id>>

-----------------------------------------------------------------------------
(* Bounds and sampled domains *)

MaxListings == 2
MaxCreates == 2
MaxBatch == 2
MaxPairs == 2

Null == <<>>
Some(x) == <<x>>

Products == {1, 2}
Parties == {1, 2}
Templates == {1, 2}
Warehouses == {1, 2}
Quantities == {-1, 0, 1}
Identifiers == {"A", "B"}

\* sale.channel rows (a model of the host application): source and warehouse.
Channels == {1, 2, 3}
channel_source(c) == <<"manual", "magento", "amazon">>[c]
channel_warehouse(c) == <<1, 1, 2>>[c]

\* domain=[('source', '!=', 'manual')] on every listing's channel field
ListingChannelDomain == {c \in Channels : channel_source(c) /= "manual"}

ListingModels == {"party.party.channel_listing",
                  "product.template.channel_listing",
                  "product.product.channel_listing"}

\* product.product rows as stored outside the write specification
StoredProducts == [p \in Products |-> [is_fresh_import |-> FALSE, code |-> "c0"]]

NoResult == [kind |-> "none"]
NoFrame == [pc |-> "idle", via |-> "none", listings |-> <<>>, i |-> 0,
            override |-> FALSE, calls |-> <<>>]
NoWizard == [state |-> "closed"]
NoSetup == [source_leaf |-> <<>>, states |-> {}]
Transactions == {1, 2}
NoTxn == [t \in Transactions |-> [pc |-> "unused"]]

RECURSIVE SetToSeq(_)
SetToSeq(S) ==
    IF S = {} THEN <<>>
    ELSE LET x == CHOOSE y \in S : \A z \in S : y <= z
         IN <<x>> \o SetToSeq(S \ {x})

Range(s) == {s[i] : i \in DOMAIN s}

-----------------------------------------------------------------------------
(* Availability: ProductSaleChannelListing.get_availability and            *)
(* get_availability_fields                                                 *)

\* product.quantity under Transaction().set_context(locations=...):
\* the on-hand quantity summed over the context's locations.
RECURSIVE SumOver(_, _)
SumOver(p, locs) ==
    IF locs = <<>> THEN 0 ELSE stock[p][Head(locs)] + SumOver(p, Tail(locs))

product_quantity(p, context) == SumOver(p, context.locations)

get_availability_context(listing) ==
    [locations |-> <<channel_warehouse(listing.channel)>>]

get_availability_ge(listing) ==
    LET context == get_availability_context(listing)
        rv == [type |-> "bucket", value |-> Null, quantity |-> Null]
    IN  IF listing.product /= Null
        THEN LET q == product_quantity(listing.product[1], context)
             IN [rv EXCEPT !.quantity = Some(q),
                           !.value = IF q >= 0 THEN Some("in_stock")
                                     ELSE Some("out_of_stock")]
        ELSE rv

get_availability(listing) ==
    LET context == get_availability_context(listing)
        rv == [type |-> "bucket", value |-> Null, quantity |-> Null]
    IN  IF listing.product /= Null
        THEN LET q == product_quantity(listing.product[1], context)
             IN [rv EXCEPT !.quantity = Some(q),
                           !.value = IF q > 0 THEN Some("in_stock")
                                     ELSE Some("out_of_stock")]
        ELSE rv

AvailabilityNames == {"quantity", "availability_used", "availability_type_used"}

\* One pass of the loop over listings: the three assignments for one listing.
\* values is a defaultdict: a missing key is created with the null defaults.
FieldsStep(values, defaults, listing) ==
    IF listing.product /= Null
    THEN LET availability == get_availability(listing)
             touched == [n \in DOMAIN values \cup AvailabilityNames |->
                            IF n \in DOMAIN values THEN values[n] ELSE defaults]
         IN [touched EXCEPT
                !["availability_type_used"][listing.id] = Some(availability.type),
                !["availability_used"][listing.id] = availability.value,
                !["quantity"][listing.id] = availability.quantity]
    ELSE values

RECURSIVE FieldsLoop(_, _, _)
FieldsLoop(values, defaults, listings) ==
    IF listings = <<>> THEN values
    ELSE FieldsLoop(FieldsStep(values, defaults, Head(listings)), defaults,
                    Tail(listings))

get_availability_fields_sparse(listings, names) ==
    LET listing_ids == {l.id : l \in {x \in Range(listings) : x.product /= Null}}
        defaults == [i \in listing_ids |-> Null]
    IN FieldsLoop([n \in names |-> defaults], defaults, listings)

get_availability_fields(listings, names) ==
    LET listing_ids == {listings[i].id : i \in DOMAIN listings}
        defaults == [i \in listing_ids |-> Null]
    IN FieldsLoop([n \in names |-> defaults], defaults, listings)

\* The stored listings the availability specification starts from: listing i
\* of channel c, linked to a product or not.
AvailListing(i, c, p) ==
    [id |-> i, channel |-> c, product |-> p,
     product_identifier |-> IF i % 2 = 1 THEN "A" ELSE "B",
     state |-> IF p = Null THEN "disabled" ELSE "active"]

ProductRefs == {Null} \cup {Some(p) : p \in Products}

InitAvail ==
    /\ stock \in [Products -> [Warehouses -> Quantities]]
    /\ \E f \in [1..MaxListings -> ListingChannelDomain \X ProductRefs] :
          product_listings = {AvailListing(i, f[i][1], f[i][2]) : i \in 1..MaxListings}
    /\ products = StoredProducts
    /\ party_listings = {}
    /\ template_listings = {}
    /\ result = NoResult
    /\ exported = <<>>
    /\ frame = NoFrame
    /\ wizard = NoWizard
    /\ setup = NoSetup
    /\ txn = NoTxn
    /\ next_id = [m \in ListingModels |-> MaxListings + 1]

UnchangedDb ==
    UNCHANGED <<stock, products, party_listings, template_listings,
                product_listings, next_id>>

\* The caller takes the value or the error of the finished call.
Return ==
    /\ result /= NoResult
    /\ result' = NoResult
    /\ UnchangedDb
    /\ UNCHANGED <<exported, frame, wizard, setup, txn>>

GetAvailability ==
    \E listing \in product_listings :
        /\ result = NoResult
        /\ result' = [kind |-> "availability", listing |-> listing.id,
                      rv |-> get_availability(listing)]
        /\ UnchangedDb
        /\ UNCHANGED <<exported, frame, wizard, setup, txn>>

GetAvailabilityFields ==
    \E S \in SUBSET product_listings, names \in SUBSET AvailabilityNames :
        LET listings == SetToSeq({l.id : l \in S})
            records == [k \in DOMAIN listings |->
                           CHOOSE l \in S : l.id = listings[k]]
        IN /\ result = NoResult
           /\ result' = [kind |-> "fields", listings |-> {l.id : l \in S},
                         names |-> names,
                         values |-> get_availability_fields(records, names)]
           /\ UnchangedDb
           /\ UNCHANGED <<exported, frame, wizard, setup, txn>>

NextAvail == GetAvailability \/ GetAvailabilityFields \/ Return

SpecAvail == InitAvail /\ [][NextAvail]_vars

ListingById(i) == CHOOSE l \in product_listings : l.id = i

\* C1: get_availability returns type 'bucket'; without a product value and
\* quantity are null; with a product of on-hand quantity Q in the channel's
\* warehouse, quantity is Q and value is in_stock iff Q > 0, else out_of_stock.
C1_Availability ==
    result.kind = "availability" =>
        LET l == ListingById(result.listing)
            rv == result.rv
        IN /\ rv.type = "bucket"
           /\ l.product = Null => (rv.value = Null /\ rv.quantity = Null)
           /\ l.product /= Null =>
                LET Q == stock[l.product[1]][channel_warehouse(l.channel)]
                IN /\ rv.quantity = Some(Q)
                   /\ Q > 0 => rv.value = Some("in_stock")
                   /\ Q <= 0 => rv.value = Some("out_of_stock")

C1_Witness ==
    /\ result.kind = "availability"
    /\ ListingById(result.listing).product /= Null
    /\ result.rv.quantity = Some(0)
    /\ result.rv.value = Some("out_of_stock")
    /\ \E w \in Warehouses : stock[ListingById(result.listing).product[1]][w] > 0

\* C2: get_availability_fields(S, N) has an entry for every name of N, each
\* entry covers every listing of S; a listing without product is null for
\* every requested name, a listing with a product carries the quantity, value
\* and type of its get_availability.
C2_AvailabilityFields ==
    result.kind = "fields" =>
        /\ result.names \subseteq DOMAIN result.values
        /\ \A n \in result.names :
              /\ DOMAIN result.values[n] = result.listings
              /\ \A i \in result.listings :
                    LET l == ListingById(i)
                        a == get_availability(l)
                    IN IF l.product = Null THEN result.values[n][i] = Null
                       ELSE result.values[n][i] =
                                CASE n = "quantity" -> a.quantity
                                  [] n = "availability_used" -> a.value
                                  [] n = "availability_type_used" -> Some(a.type)

C2_Witness ==
    /\ result.kind = "fields"
    /\ result.names = {"quantity", "availability_used"}
    /\ \E i, j \in result.listings :
          /\ ListingById(i).product = Null
          /\ ListingById(j).product /= Null
          /\ result.values["quantity"][i] = Null
          /\ result.values["availability_used"][j] = Some("in_stock")

-----------------------------------------------------------------------------
(* Storage of the three listing tables: create, write and delete as the    *)
(* host ORM runs them against the fields and _sql_constraints declared in  *)
(* party.py and product.py (INSERT/UPDATE with the SQL constraints first,  *)
(* then field validation; any failure rolls the statement back).           *)

\* Unique(table, table.channel, table.contact_identifier, table.party)
channel_party_unique(r) == <<r.channel, r.contact_identifier, r.party>>

\* UNIQUE(channel, template_identifier, template)
channel_template_unique(r) == <<r.channel, r.template_identifier, r.template>>

channel_product_identifier_uniq_with_product(r) ==
    <<r.channel, r.product_identifier, r.product>>

\* UNIQUE(channel, product_identifier)
channel_product_identifier_uniq(r) == <<r.channel, r.product_identifier>>

ConstraintKey(model, r) ==
    CASE model = "party.party.channel_listing" -> channel_party_unique(r)
      [] model = "product.template.channel_listing" -> channel_template_unique(r)
      [] model = "product.product.channel_listing" -> channel_product_identifier_uniq(r)

ConstraintMessage(model) ==
    CASE model = "party.party.channel_listing" ->
            "Contact is already mapped to this channel with same identifier"
      [] model = "product.template.channel_listing" ->
            "Product Template is already mapped to this channel with same identifier"
      [] model = "product.product.channel_listing" ->
            "This external product is already mapped with same channel."

Table(model) ==
    CASE model = "party.party.channel_listing" -> party_listings
      [] model = "product.template.channel_listing" -> template_listings
      [] model = "product.product.channel_listing" -> product_listings

SqlConstraintsHold_off(model, rows, r) == TRUE

\* Whether the database accepts row r beside rows (r's own id excepted).
SqlConstraintsHold(model, rows, r) ==
    \A o \in rows : o.id /= r.id => ConstraintKey(model, o) /= ConstraintKey(model, r)

default_state == "active"

product_required_never(r) == FALSE

\* states={'required': Eval('state') == 'active'} on product
product_required(r) == r.state = "active"

\* Field validation of a listing row: the channel domain and required fields.
Validate(model, r) ==
    /\ r.channel \in ListingChannelDomain
    /\ model = "product.product.channel_listing" =>
          (product_required(r) => r.product /= Null)

ConstraintError(model, args, r) ==
    [kind |-> "error", op |-> "create", error |-> "UserError",
     cause |-> "sql_constraint", message |-> ConstraintMessage(model),
     model |-> model, args |-> args, values |-> r]

ValidationError(model, args, r) ==
    [kind |-> "error", op |-> "create", error |-> "UserError",
     cause |-> "validation", message |-> "required or domain validation failed",
     model |-> model, args |-> args, values |-> r]

Created(model, args, r) ==
    [kind |-> "created", op |-> "create", model |-> model, args |-> args,
     values |-> r]

Creates == next_id["party.party.channel_listing"]
           + next_id["product.template.channel_listing"]
           + next_id["product.product.channel_listing"] - 3

\* Model.create([args]) on one of the listing tables: r is the row of args
\* with the defaults filled in, rows_after the table after the call.
Create(model, args, r, rows, rows_after) ==
    /\ result = NoResult
    /\ IF ~SqlConstraintsHold(model, rows, r)
       THEN /\ result' = ConstraintError(model, args, r)
            /\ rows_after = rows
            /\ UNCHANGED next_id
       ELSE IF ~Validate(model, r)
       THEN /\ result' = ValidationError(model, args, r)
            /\ rows_after = rows
            /\ UNCHANGED next_id
       ELSE /\ Creates < MaxCreates
            /\ result' = Created(model, args, r)
            /\ rows_after = rows \cup {r}
            /\ next_id' = [next_id EXCEPT ![model] = @ + 1]

CreatePartyListing ==
    \E c \in Channels, p \in Parties, i \in Identifiers :
        LET model == "party.party.channel_listing"
            r == [id |-> next_id[model], channel |-> c, party |-> p,
                  contact_identifier |-> i]
        IN /\ Create(model, r, r, party_listings, party_listings')
           /\ UNCHANGED <<stock, products, template_listings, product_listings,
                          exported, frame, wizard, setup, txn>>

CreateTemplateListing ==
    \E c \in Channels, t \in Templates, i \in Identifiers :
        LET model == "product.template.channel_listing"
            r == [id |-> next_id[model], channel |-> c, template |-> t,
                  template_identifier |-> i]
        IN /\ Create(model, r, r, template_listings, template_listings')
           /\ UNCHANGED <<stock, products, party_listings, product_listings,
                          exported, frame, wizard, setup, txn>>

\* state is Null when the caller gives none: default_state() fills it in.
CreateProductListing ==
    \E c \in Channels, p \in {Null} \cup {Some(x) : x \in DOMAIN products},
       i \in Identifiers, st \in {Null, Some("active"), Some("disabled")} :
        LET model == "product.product.channel_listing"
            args == [channel |-> c, product |-> p, product_identifier |-> i,
                     state |-> st]
            r == [id |-> next_id[model], channel |-> c, product |-> p,
                  product_identifier |-> i,
                  state |-> IF st = Null THEN default_state ELSE st[1]]
        IN /\ Create(model, args, r, product_listings, product_listings')
           /\ UNCHANGED <<stock, products, party_listings, template_listings,
                          exported, frame, wizard, setup, txn>>

\* ProductSaleChannelListing.write([listing], {'state': st, 'product': p})
WriteProductListing ==
    \E l \in product_listings, st \in {"active", "disabled"},
       p \in {Null} \cup {Some(x) : x \in DOMAIN products} :
        LET model == "product.product.channel_listing"
            r == [l EXCEPT !.state = st, !.product = p]
        IN /\ result = NoResult
           /\ r /= l
           /\ IF Validate(model, r)
              THEN /\ product_listings' = (product_listings \ {l}) \cup {r}
                   /\ result' = [kind |-> "written", op |-> "write",
                                 model |-> model,
                                 before |-> l, values |-> r]
              ELSE /\ product_listings' = product_listings
                   /\ result' = [kind |-> "error", op |-> "write",
                                 error |-> "UserError",
                                 cause |-> "validation",
                                 message |-> "required or domain validation failed",
                                 model |-> model, before |-> l, values |-> r]
           /\ UNCHANGED <<stock, products, party_listings, template_listings,
                          next_id, exported, frame, wizard, setup, txn>>

DeleteListing ==
    \E model \in ListingModels :
        \E l \in Table(model) :
            /\ result = NoResult
            /\ party_listings' =
                  IF model = "party.party.channel_listing"
                  THEN party_listings \ {l} ELSE party_listings
            /\ template_listings' =
                  IF model = "product.template.channel_listing"
                  THEN template_listings \ {l} ELSE template_listings
            /\ product_listings' =
                  IF model = "product.product.channel_listing"
                  THEN product_listings \ {l} ELSE product_listings
            /\ UNCHANGED <<stock, products, next_id, result, exported, frame,
                           wizard, setup, txn>>

\* Deleting a product: ondelete='CASCADE' deletes the listings that link it.
DeleteProduct ==
    \E p \in DOMAIN products :
        /\ result = NoResult
        /\ products' = [q \in DOMAIN products \ {p} |-> products[q]]
        /\ product_listings' = {l \in product_listings : l.product /= Some(p)}
        /\ UNCHANGED <<stock, party_listings, template_listings, next_id, result,
                       exported, frame, wizard, setup, txn>>

InitListing ==
    /\ stock = [p \in Products |-> [w \in Warehouses |-> 0]]
    /\ products = StoredProducts
    /\ party_listings = {}
    /\ template_listings = {}
    /\ product_listings = {}
    /\ next_id = [m \in ListingModels |-> 1]
    /\ result = NoResult
    /\ exported = <<>>
    /\ frame = NoFrame
    /\ wizard = NoWizard
    /\ setup = NoSetup
    /\ txn = NoTxn

NextListing ==
    \/ CreatePartyListing
    \/ CreateTemplateListing
    \/ CreateProductListing
    \/ WriteProductListing
    \/ DeleteListing
    \/ DeleteProduct
    \/ Return

SpecListing == InitListing /\ [][NextListing]_vars

Tables == <<party_listings, template_listings, product_listings>>

C3_NoDuplicates ==
    /\ \A a, b \in party_listings :
          (a.channel = b.channel /\ a.contact_identifier = b.contact_identifier
              /\ a.party = b.party) => a = b
    /\ \A a, b \in template_listings :
          (a.channel = b.channel /\ a.template_identifier = b.template_identifier
              /\ a.template = b.template) => a = b
    /\ \A a, b \in product_listings :
          (a.channel = b.channel /\ a.product_identifier = b.product_identifier)
              => a = b

\* Whether the stored rows already hold the key of the row v to insert.
C3_IsDuplicate(model, v) ==
    CASE model = "party.party.channel_listing" ->
            \E o \in party_listings :
                /\ o.channel = v.channel
                /\ o.contact_identifier = v.contact_identifier
                /\ o.party = v.party
      [] model = "product.template.channel_listing" ->
            \E o \in template_listings :
                /\ o.channel = v.channel
                /\ o.template_identifier = v.template_identifier
                /\ o.template = v.template
      [] model = "product.product.channel_listing" ->
            \E o \in product_listings :
                /\ o.channel = v.channel
                /\ o.product_identifier = v.product_identifier

C3_DuplicateInsertFails ==
    (result = NoResult /\ result' /= NoResult /\ result'.op = "create"
        /\ C3_IsDuplicate(result'.model, result'.values))
    => /\ result'.kind = "error"
       /\ result'.cause = "sql_constraint"
       /\ Tables' = Tables

\* C3: no two stored party or template listings share (channel, identifier,
\* entity), no two stored product listings share (channel,
\* product_identifier); an insert that would make a duplicate fails with a
\* constraint violation and leaves the stored listings unchanged.
C3_Uniqueness == []C3_NoDuplicates /\ [][C3_DuplicateInsertFails]_vars

C3_Witness ==
    /\ result /= NoResult
    /\ result.kind = "error"
    /\ result.op = "create"
    /\ result.cause = "sql_constraint"
    /\ result.model = "product.product.channel_listing"
    /\ \E o \in product_listings :
          /\ o.channel = result.values.channel
          /\ o.product_identifier = result.values.product_identifier
          /\ o.product /= result.values.product

C8_ActiveHasProduct ==
    \A l \in product_listings : l.state = "active" => l.product /= Null

C8_Step ==
    (result = NoResult /\ result' /= NoResult
        /\ result'.model = "product.product.channel_listing")
    => /\ (result'.op = "create" /\ result'.args.state = Null)
            => result'.values.state = "active"
       /\ (result'.values.state = "active" /\ result'.values.product = Null)
            => /\ result'.kind = "error"
               /\ product_listings' = product_listings
       /\ (result'.op = "create" /\ result'.kind = "created")
            => result'.values \in product_listings'

\* C8: every stored active product listing references a product; a new
\* listing defaults to 'active'; creating an active listing without a
\* product, or making a product-less listing active, fails and leaves the
\* listings unchanged, while a disabled listing without product is stored.
C8_ActiveRequiresProduct == []C8_ActiveHasProduct /\ [][C8_Step]_vars

C8_Witness ==
    /\ result /= NoResult
    /\ result.kind = "error"
    /\ result.op = "write"
    /\ result.cause = "validation"
    /\ result.before.state = "disabled"
    /\ result.before.product = Null
    /\ result.values.state = "active"
    /\ result.before \in product_listings

-----------------------------------------------------------------------------
(* The export dispatcher: create_from, export_inventory and                *)
(* export_bulk_inventory, with or without a downstream override of the     *)
(* single-item export_inventory                                            *)

Raise(op, error, message, channel) ==
    [kind |-> "raised", op |-> op, error |-> error, message |-> message,
     channel |-> channel]

Returned(op, value) == [kind |-> "returned", op |-> op, value |-> value]

Product_create_from(channel, product_data) ==
    Raise("Product.create_from", "NotImplementedError",
          "create_from is not implemented in product for "
              \o channel_source(channel) \o " channels", channel)

Listing_create_from(channel, product_data) ==
    Raise("ProductSaleChannelListing.create_from", "NotImplementedError",
          "create_from is not implemented in channel listing for "
              \o channel_source(channel) \o " channels", channel)

export_inventory_no_source(self) ==
    Raise("export_inventory", "NotImplementedError",
          "Export inventory is not implemented", self.channel)

export_inventory_noop(self) == Returned("export_inventory", Null)

\* The base export_inventory of a listing
export_inventory(self) ==
    Raise("export_inventory", "NotImplementedError",
          "Export inventory is not implemented for "
              \o channel_source(self.channel) \o " channels", self.channel)

ProductData == {"data1", "data2"}

CallProductCreateFrom ==
    \E channel \in Channels, product_data \in ProductData :
        /\ result = NoResult
        /\ frame.pc /= "running"
        /\ result' = Product_create_from(channel, product_data)
        /\ UnchangedDb
        /\ UNCHANGED <<exported, frame, wizard, setup, txn>>

CallListingCreateFrom ==
    \E channel \in Channels, product_data \in ProductData :
        /\ result = NoResult
        /\ frame.pc /= "running"
        /\ result' = Listing_create_from(channel, product_data)
        /\ UnchangedDb
        /\ UNCHANGED <<exported, frame, wizard, setup, txn>>

CallExportInventory ==
    \E self \in product_listings :
        /\ result = NoResult
        /\ frame.pc /= "running"
        /\ result' = export_inventory(self)
        /\ UnchangedDb
        /\ UNCHANGED <<exported, frame, wizard, setup, txn>>

BatchInputs ==
    UNION {[1..n -> {l.id : l \in product_listings}] : n \in 0..MaxBatch}

\* export_bulk_inventory(listings), called directly or through
\* export_inventory_button; override says whether the listing class carries
\* a downstream export_inventory.
CallExportBulkInventory ==
    \E listings \in BatchInputs, override \in BOOLEAN,
       via \in {"export_bulk_inventory", "export_inventory_button"} :
        /\ result = NoResult
        /\ frame.pc /= "running"
        /\ frame' = [pc |-> "running", via |-> via, listings |-> listings,
                     i |-> 1, override |-> override, calls |-> <<>>]
        /\ exported' = <<>>
        /\ UnchangedDb
        /\ UNCHANGED <<result, wizard, setup, txn>>

OnItemRaised_continue(f) == [f EXCEPT !.i = @ + 1]

\* An exception of listing.export_inventory() leaves the for loop and the
\* call: nothing catches it.
OnItemRaised(f) == [f EXCEPT !.pc = "raised"]

\* One pass of `for listing in listings: listing.export_inventory()`
BulkIterate ==
    /\ frame.pc = "running"
    /\ frame.i <= Len(frame.listings)
    /\ LET id == frame.listings[frame.i]
           listing == ListingById(id)
           called == [frame EXCEPT !.calls = Append(@, id)]
       IN IF frame.override
          THEN \/ /\ exported' = Append(exported, id)
                  /\ frame' = [called EXCEPT !.i = @ + 1]
                  /\ UNCHANGED result
               \/ /\ frame' = OnItemRaised(called)
                  /\ result' = IF frame'.pc = "raised"
                               THEN Raise(frame.via, "ChannelError",
                                          "export failed downstream",
                                          listing.channel)
                               ELSE result
                  /\ UNCHANGED exported
          ELSE LET r == export_inventory(listing)
               IN IF r.kind = "raised"
                  THEN /\ frame' = OnItemRaised(called)
                       /\ result' = IF frame'.pc = "raised"
                                    THEN [r EXCEPT !.op = frame.via]
                                    ELSE result
                       /\ UNCHANGED exported
                  ELSE /\ frame' = [called EXCEPT !.i = @ + 1]
                       /\ UNCHANGED <<result, exported>>
    /\ UnchangedDb
    /\ UNCHANGED <<wizard, setup, txn>>

\* The loop is over: export_bulk_inventory returns None.
BulkReturn ==
    /\ frame.pc = "running"
    /\ frame.i > Len(frame.listings)
    /\ frame' = [frame EXCEPT !.pc = "returned"]
    /\ result' = Returned(frame.via, Null)
    /\ UnchangedDb
    /\ UNCHANGED <<exported, wizard, setup, txn>>

InitExport ==
    /\ stock = [p \in Products |-> [w \in Warehouses |-> 0]]
    /\ products = StoredProducts
    /\ \E f \in [1..MaxListings -> ListingChannelDomain \X {Null, Some(1)}] :
          product_listings = {AvailListing(i, f[i][1], f[i][2]) : i \in 1..MaxListings}
    /\ party_listings = {}
    /\ template_listings = {}
    /\ next_id = [m \in ListingModels |-> MaxListings + 1]
    /\ result = NoResult
    /\ exported = <<>>
    /\ frame = NoFrame
    /\ wizard = NoWizard
    /\ setup = NoSetup
    /\ txn = NoTxn

NextExport ==
    \/ CallProductCreateFrom
    \/ CallListingCreateFrom
    \/ CallExportInventory
    \/ CallExportBulkInventory
    \/ BulkIterate
    \/ BulkReturn
    \/ Return

SpecExport == InitExport /\ [][NextExport]_vars

Db == <<stock, products, party_listings, template_listings, product_listings,
        next_id>>

C4_Prefixes == {"Export inventory is not implemented for ",
                "create_from is not implemented in channel listing for ",
                "create_from is not implemented in product for "}

C4_Step ==
    (result = NoResult /\ result' /= NoResult
        /\ result'.op \in {"export_inventory",
                           "ProductSaleChannelListing.create_from",
                           "Product.create_from"})
    => /\ result'.kind = "raised"
       /\ result'.error = "NotImplementedError"
       /\ \E pre \in C4_Prefixes :
             result'.message = pre \o channel_source(result'.channel) \o " channels"
       /\ Db' = Db
       /\ exported' = exported

\* C4: the base export_inventory, the listing-level create_from and the
\* product-level create_from always raise the unimplemented error whose
\* message names the source of the channel involved; they never return
\* normally and change no listing, product or channel state.
C4_BaseRaises == [][C4_Step]_vars

C4_Witness ==
    /\ result /= NoResult
    /\ result.kind = "raised"
    /\ result.op = "ProductSaleChannelListing.create_from"
    /\ result.message =
          "create_from is not implemented in channel listing for amazon channels"

Prefix(s, n) == SubSeq(s, 1, n)

C5_ResultOfFrame == result /= NoResult /\ result.op = frame.via

C5_State ==
    (frame.pc /= "idle" /\ frame.override) =>
        /\ Len(frame.calls) <= Len(frame.listings)
        /\ frame.calls = Prefix(frame.listings, Len(frame.calls))
        /\ frame.pc = "running" =>
              (exported = frame.calls /\ Len(frame.calls) = frame.i - 1)
        /\ frame.pc = "returned" =>
              (exported = frame.listings /\ frame.calls = frame.listings)
        /\ frame.pc = "raised" =>
              /\ Len(frame.calls) >= 1
              /\ exported = Prefix(frame.listings, Len(frame.calls) - 1)
              /\ C5_ResultOfFrame => (result.kind = "raised"
                                      /\ result.error = "ChannelError")

C5_Step ==
    /\ (frame.pc = "running" /\ frame.override /\ frame'.pc = "raised")
          => (result'.kind = "raised" /\ exported' = exported)
    /\ (frame.pc \in {"raised", "returned"} /\ frame'.pc = frame.pc)
          => (frame'.calls = frame.calls /\ exported' = exported)
    /\ (frame.pc = "running" /\ frame'.pc /= "idle")
          => (Len(exported') >= Len(exported)
              /\ Prefix(exported', Len(exported)) = exported)

\* C5: the inherited export_bulk_inventory calls the overridden
\* export_inventory once per listing in input order; when the call for item
\* N fails the failure reaches the caller, items 1..N-1 are and stay
\* exported, and no item after N is ever called.
C5_BulkOrder == []C5_State /\ [][C5_Step]_vars

C5_Witness ==
    /\ frame.pc = "raised"
    /\ frame.override
    /\ Len(frame.listings) = 2
    /\ Len(frame.calls) = 2
    /\ Len(exported) = 1
    /\ C5_ResultOfFrame

C6_Finished == frame.pc \in {"raised", "returned"} /\ ~frame.override

\* C6 as stated: the base export_bulk_inventory (or the button), with no
\* override, raises NotSupported naming the channel's source on any set of
\* listings and never completes normally.
C6_AlwaysRaises ==
    (C6_Finished /\ C5_ResultOfFrame) =>
        /\ result.kind = "raised"
        /\ result.error = "NotImplementedError"

\* C6 amended: with no override, on a non-empty list the call raises the
\* unimplemented error naming the source of the first listing's channel and
\* exports nothing; on an empty list it returns normally.
C6_RaisesOnNonEmpty ==
    (C6_Finished /\ C5_ResultOfFrame) =>
        /\ exported = <<>>
        /\ IF frame.listings /= <<>>
           THEN /\ result.kind = "raised"
                /\ result.error = "NotImplementedError"
                /\ result.message =
                      "Export inventory is not implemented for "
                      \o channel_source(ListingById(frame.listings[1]).channel)
                      \o " channels"
                /\ frame.calls = <<frame.listings[1]>>
           ELSE /\ result.kind = "returned"
                /\ frame.calls = <<>>

C6_Witness ==
    /\ C6_Finished
    /\ C5_ResultOfFrame
    /\ result.kind = "raised"
    /\ result.op = "export_inventory_button"
    /\ Len(frame.listings) = 2
    /\ ListingById(frame.listings[1]).channel /= ListingById(frame.listings[2]).channel

-----------------------------------------------------------------------------
(* The add-listing wizard: AddProductListingStart and AddProductListing    *)

Sources == {channel_source(c) : c \in Channels}

\* The names downstream modules may give the StateViews they register.
ContinuationStates == {"start_" \o src : src \in Sources}

\* AddProductListingStart.add_source(source): the new source_leaf
add_source(source_leaf, source) ==
    IF source \notin Range(source_leaf) THEN Append(source_leaf, source)
    ELSE source_leaf

AddSource ==
    \E source \in Sources :
        /\ wizard.state \in {"closed", "end"}
        /\ setup' = [setup EXCEPT !.source_leaf = add_source(@, source)]
        /\ setup' /= setup
        /\ UnchangedDb
        /\ UNCHANGED <<result, exported, frame, wizard, txn>>

\* AddProductListing.default_start
default_start(context) == [product |-> Some(context.active_id)]

transition_next_no_prefix(start) == channel_source(start.channel[1])

\* AddProductListing.transition_next
transition_next(start) == "start_" \o channel_source(start.channel[1])

\* Product.add_listing opens the wizard on the active product.
OpenWizard ==
    \E active_id \in Products :
        LET context == [active_id |-> active_id]
        IN /\ wizard.state \in {"closed", "end"}
           /\ wizard' = [state |-> "start", context |-> context,
                         start |-> [product |-> default_start(context).product,
                                    channel |-> Null],
                         button |-> "none", trail |-> <<"start">>]
           /\ UnchangedDb
           /\ UNCHANGED <<result, exported, frame, setup, txn>>

\* The user picks a channel within domain=[('source', 'in', source_leaf)].
SelectChannel ==
    \E c \in Channels :
        /\ wizard.state = "start"
        /\ channel_source(c) \in Range(setup.source_leaf)
        /\ wizard.start.channel /= Some(c)
        /\ wizard' = [wizard EXCEPT !.start.channel = Some(c)]
        /\ UnchangedDb
        /\ UNCHANGED <<result, exported, frame, setup, txn>>

\* Button('Cancel', 'end', 'tryton-cancel')
PressCancel ==
    /\ wizard.state = "start"
    /\ wizard' = [wizard EXCEPT !.state = "end", !.button = "Cancel",
                                !.trail = <<"start", "end">>]
    /\ UnchangedDb
    /\ UNCHANGED <<result, exported, frame, setup, txn>>

\* Button('Next', 'next', 'tryton-go-next'): the wizard runs the transition
\* 'next' and looks up the state transition_next names. A name no state
\* carries does not resolve: the call raises and the session stays on the
\* form or is closed by the client.
PressNext ==
    /\ wizard.state = "start"
    /\ wizard.start.channel /= Null
    /\ result = NoResult
    /\ LET name == transition_next(wizard.start)
       IN IF name \in setup.states
          THEN /\ wizard' = [wizard EXCEPT !.state = name, !.button = "Next",
                                           !.trail = <<"start", "next", name>>]
               /\ UNCHANGED result
          ELSE /\ \E after \in {"start", "end"} :
                     wizard' = [wizard EXCEPT !.state = after, !.button = "Next",
                                              !.trail = <<"start", "next">>]
               /\ result' = Raise("product.listing.add", "KeyError", name,
                                  wizard.start.channel[1])
    /\ UnchangedDb
    /\ UNCHANGED <<exported, frame, setup, txn>>

\* The downstream continuation view ends the wizard.
FinishContinuation ==
    /\ wizard.state \in ContinuationStates
    /\ wizard' = [wizard EXCEPT !.state = "end", !.button = "none",
                                !.trail = Append(@, "end")]
    /\ UnchangedDb
    /\ UNCHANGED <<result, exported, frame, setup, txn>>

InitWizard ==
    /\ stock = [p \in Products |-> [w \in Warehouses |-> 0]]
    /\ products = StoredProducts
    /\ party_listings = {}
    /\ template_listings = {}
    /\ product_listings = {}
    /\ next_id = [m \in ListingModels |-> 1]
    /\ result = NoResult
    /\ exported = <<>>
    /\ frame = NoFrame
    /\ wizard = NoWizard
    /\ \E states \in SUBSET ContinuationStates :
          setup = [source_leaf |-> <<>>, states |-> states]
    /\ txn = NoTxn

NextWizard ==
    \/ AddSource
    \/ OpenWizard
    \/ SelectChannel
    \/ PressCancel
    \/ PressNext
    \/ FinishContinuation
    \/ Return

SpecWizard == InitWizard /\ [][NextWizard]_vars

C7_State ==
    wizard.state /= "closed" =>
        /\ wizard.trail[1] = "start"
        /\ wizard.start.product = Some(wizard.context.active_id)

C7_Step ==
    (wizard.state = "start" /\ wizard'.state /= "closed"
        /\ wizard'.start = wizard.start
        /\ (wizard' /= wizard \/ (result = NoResult /\ result' /= NoResult))) =>
        LET composed == "start_" \o channel_source(wizard.start.channel[1])
        IN /\ wizard'.button = "Cancel" =>
                (wizard'.state = "end" /\ wizard'.trail = <<"start", "end">>)
           /\ (wizard'.button = "Next" /\ composed \in setup.states) =>
                /\ wizard'.state = composed
                /\ wizard'.trail = <<"start", "next", composed>>
           /\ (wizard'.button = "Next" /\ composed \notin setup.states) =>
                /\ wizard'.state \notin ContinuationStates
                /\ result'.kind = "raised"

C7_Opens ==
    (wizard.state \in {"closed", "end"} /\ wizard' /= wizard) =>
        wizard'.state = "start"

\* C7: the wizard begins in 'start' with the active product of the context;
\* from 'start' Next goes through 'next' to 'start_' + the chosen channel's
\* source and Cancel goes to 'end'; when no state of the composed name is
\* registered the transition does not resolve and no continuation state is
\* reached.
C7_Wizard == []C7_State /\ [][C7_Step]_vars /\ [][C7_Opens]_vars

C7_Witness ==
    /\ wizard.state /= "closed"
    /\ wizard.button = "Next"
    /\ wizard.trail = <<"start", "next">>
    /\ result /= NoResult
    /\ result.error = "KeyError"
    /\ result.message = "start_manual"
    /\ wizard.start.product = Some(2)
    /\ "start_amazon" \in setup.states

-----------------------------------------------------------------------------
(* Two transactions that each insert one listing row: the database checks  *)
(* the declared unique constraints, an insert that meets an uncommitted    *)
(* row of the same key waits for that transaction to end                   *)

RowsOf(model) ==
    CASE model = "party.party.channel_listing" ->
            {[channel |-> c, party |-> p, contact_identifier |-> i] :
                c \in ListingChannelDomain, p \in Parties, i \in Identifiers}
      [] model = "product.template.channel_listing" ->
            {[channel |-> c, template |-> t, template_identifier |-> i] :
                c \in ListingChannelDomain, t \in Templates, i \in Identifiers}
      [] model = "product.product.channel_listing" ->
            {[channel |-> c, product |-> Some(p), product_identifier |-> i,
              state |-> default_state] :
                c \in ListingChannelDomain, p \in Products, i \in Identifiers}

\* The rows other transactions inserted into model and did not commit yet.
Pending(model, t) ==
    {txn[o].row : o \in {x \in Transactions \ {t} :
                            txn[x].pc = "inserted" /\ txn[x].model = model}}

WithId(values, id) ==
    [f \in DOMAIN values \cup {"id"} |-> IF f = "id" THEN id ELSE values[f]]

\* INSERT of the transaction's row
TxnInsert ==
    \E t \in Transactions :
        LET model == txn[t].model
            r == WithId(txn[t].values, next_id[model])
        IN /\ txn[t].pc = "begun"
           /\ SqlConstraintsHold(model, Pending(model, t), r)
           /\ next_id' = [next_id EXCEPT ![model] = @ + 1]
           /\ IF SqlConstraintsHold(model, Table(model), r)
              THEN txn' = [txn EXCEPT ![t].pc = "inserted", ![t].row = r]
              ELSE txn' = [txn EXCEPT ![t].pc = "failed",
                                      ![t].error = ConstraintMessage(model)]
           /\ UNCHANGED <<stock, products, party_listings, template_listings,
                          product_listings, result, exported, frame, wizard,
                          setup>>

TxnCommit ==
    \E t \in Transactions :
        LET model == txn[t].model
        IN /\ txn[t].pc = "inserted"
           /\ txn' = [txn EXCEPT ![t].pc = "committed"]
           /\ party_listings' =
                 IF model = "party.party.channel_listing"
                 THEN party_listings \cup {txn[t].row} ELSE party_listings
           /\ template_listings' =
                 IF model = "product.template.channel_listing"
                 THEN template_listings \cup {txn[t].row} ELSE template_listings
           /\ product_listings' =
                 IF model = "product.product.channel_listing"
                 THEN product_listings \cup {txn[t].row} ELSE product_listings
           /\ UNCHANGED <<stock, products, next_id, result, exported, frame,
                          wizard, setup>>

InitRace ==
    /\ stock = [p \in Products |-> [w \in Warehouses |-> 0]]
    /\ products = StoredProducts
    /\ party_listings = {}
    /\ template_listings = {}
    /\ product_listings = {}
    /\ next_id = [m \in ListingModels |-> 1]
    /\ result = NoResult
    /\ exported = <<>>
    /\ frame = NoFrame
    /\ wizard = NoWizard
    /\ setup = NoSetup
    /\ \E m \in [Transactions -> ListingModels] :
          \E v \in [Transactions -> UNION {RowsOf(x) : x \in ListingModels}] :
              /\ \A t \in Transactions : v[t] \in RowsOf(m[t])
              /\ txn = [t \in Transactions |->
                           [pc |-> "begun", model |-> m[t], values |-> v[t],
                            row |-> Null, error |-> ""]]

NextRace == TxnInsert \/ TxnCommit

SpecRace == InitRace /\ [][NextRace]_vars

C9_Identifier(t) ==
    CASE txn[t].model = "party.party.channel_listing" ->
            txn[t].values.contact_identifier
      [] txn[t].model = "product.template.channel_listing" ->
            txn[t].values.template_identifier
      [] txn[t].model = "product.product.channel_listing" ->
            txn[t].values.product_identifier

C9_Entity(t) ==
    CASE txn[t].model = "party.party.channel_listing" -> txn[t].values.party
      [] txn[t].model = "product.template.channel_listing" ->
            txn[t].values.template
      [] txn[t].model = "product.product.channel_listing" -> 0

C9_BothEnded == \A t \in Transactions : txn[t].pc \in {"committed", "failed"}

C9_SamePair ==
    /\ txn[1].model = txn[2].model
    /\ txn[1].values.channel = txn[2].values.channel
    /\ C9_Identifier(1) = C9_Identifier(2)

C9_ExactlyOne ==
    /\ \E t \in Transactions :
          /\ txn[t].pc = "committed"
          /\ \A o \in Transactions \ {t} :
                /\ txn[o].pc = "failed"
                /\ txn[o].error = ConstraintMessage(txn[o].model)
    /\ Cardinality(Table(txn[1].model)) = 1

\* C9 as stated: of two racing inserts with the same (channel, identifier)
\* pair exactly one succeeds and the other fails with a constraint
\* violation, for party, template and product-variant listings alike.
C9_PairRace == (C9_BothEnded /\ C9_SamePair) => C9_ExactlyOne

C9_NoRetry ==
    \A t \in Transactions :
        txn[t].pc = "failed" => (txn'[t] = txn[t] /\ Tables' = Tables)

\* C9 amended: of two racing inserts with the same constrained key, that is
\* (channel, identifier, entity) for party and template listings and
\* (channel, product_identifier) for product-variant listings, exactly one
\* succeeds and the other fails with the constraint's error and is not
\* retried; both rows are never stored.
C9_KeyRace ==
    /\ []((C9_BothEnded /\ C9_SamePair /\ C9_Entity(1) = C9_Entity(2))
            => C9_ExactlyOne)
    /\ [][C9_NoRetry]_vars

C9_Witness ==
    /\ C9_BothEnded
    /\ txn[1].model = "product.product.channel_listing"
    /\ C9_SamePair
    /\ txn[1].values.product /= txn[2].values.product
    /\ txn[1].pc = "failed"
    /\ txn[2].pc = "committed"
    /\ txn[1].row = Null

-----------------------------------------------------------------------------
(* Product.write(products, values, *args)                                  *)
(*                                                                         *)
(* A values dict is a record of the fields it may carry, Null for a key it *)
(* does not hold. The caller's dicts are objects: dicts[k] is the k-th,    *)
(* and a (records, values) pair names its dict by index, so that two pairs *)
(* may share one dict.                                                     *)

ValueDicts ==
    [is_fresh_import : {Null, Some(TRUE), Some(FALSE)},
     code : {Null, Some("c1")}]

\* One row after UPDATE with the dict d
ApplyValues(row, d) ==
    [is_fresh_import |-> IF d.is_fresh_import /= Null THEN d.is_fresh_import[1]
                         ELSE row.is_fresh_import,
     code |-> IF d.code /= Null THEN d.code[1] ELSE row.code]

\* super().write(records, values, *args): each pair in turn
RECURSIVE super_write(_, _, _)
super_write(rows, pairs, dicts) ==
    IF pairs = <<>> THEN rows
    ELSE LET pair == Head(pairs)
             d == dicts[pair.values]
             updated == [p \in DOMAIN rows |->
                            IF p \in pair.records THEN ApplyValues(rows[p], d)
                            ELSE rows[p]]
         IN super_write(updated, Tail(pairs), dicts)

\* The loop of Product.write over its first argument: the dicts after it
FreshLoop(rows, pairs, dicts) ==
    IF \E p \in pairs[1].records : rows[p].is_fresh_import
    THEN [dicts EXCEPT ![pairs[1].values].is_fresh_import = Some(FALSE)]
    ELSE dicts

Product_write(rows, pairs, dicts) ==
    super_write(rows, pairs, FreshLoop(rows, pairs, dicts))

WriteInputs ==
    UNION {[1..n -> [records : SUBSET Products, values : 1..n]] : n \in 1..MaxPairs}

CallProductWrite ==
    \E pairs \in WriteInputs :
        \E dicts \in [1..Len(pairs) -> ValueDicts] :
            /\ result = NoResult
            /\ products' = Product_write(products, pairs, dicts)
            /\ result' = [kind |-> "written", op |-> "Product.write",
                          pairs |-> pairs, dicts |-> dicts, before |-> products]
            /\ UNCHANGED <<stock, party_listings, template_listings,
                           product_listings, next_id, exported, frame, wizard,
                           setup, txn>>

\* An import marks the product it created as fresh.
ImportProduct ==
    \E p \in Products :
        /\ result = NoResult
        /\ ~products[p].is_fresh_import
        /\ products' = [products EXCEPT ![p].is_fresh_import = TRUE,
                                        ![p].code = "c0"]
        /\ UNCHANGED <<stock, party_listings, template_listings,
                       product_listings, next_id, result, exported, frame,
                       wizard, setup, txn>>

InitWrite ==
    /\ stock = [p \in Products |-> [w \in Warehouses |-> 0]]
    /\ products = StoredProducts
    /\ party_listings = {}
    /\ template_listings = {}
    /\ product_listings = {}
    /\ next_id = [m \in ListingModels |-> 1]
    /\ result = NoResult
    /\ exported = <<>>
    /\ frame = NoFrame
    /\ wizard = NoWizard
    /\ setup = NoSetup
    /\ txn = NoTxn

NextWrite == CallProductWrite \/ ImportProduct \/ Return

SpecWrite == InitWrite /\ [][NextWrite]_vars

C10_Written == result /= NoResult /\ result.op = "Product.write"

C10_Updated == UNION {result.pairs[k].records : k \in DOMAIN result.pairs}

\* C10: after Product.write every product the call updated, in the first
\* pair or in a later one, that was a fresh import before is no longer one;
\* a write that touches no fresh import leaves is_fresh_import as the
\* caller's values say.
C10_WriteClearsFresh ==
    C10_Written =>
        /\ \A p \in C10_Updated :
              result.before[p].is_fresh_import => ~products[p].is_fresh_import
        /\ (\A p \in C10_Updated : ~result.before[p].is_fresh_import)
              => products = super_write(result.before, result.pairs, result.dicts)

====
